---------------------------- MODULE Spec2Model ----------------------------
(***************************************************************************)
(* Session lifecycle manager, message buffer, address normalization and    *)
(* media store of the WhatsApp gateway servers.                            *)
(*                                                                         *)
(* The repository holds several server programs.  The ones modelled here:  *)
(*   - the "definitive" server  (src/servidor.js, lines 653-1330), whose   *)
(*     connectWhatsApp is guarded by the isConnecting flag; its            *)
(*     definitions keep the source's names;                                *)
(*   - the "V4" server          (src/servidor.js, lines 1-651), names      *)
(*     suffixed V4;                                                        *)
(*   - the guarded copy         (src/unnamed/part_001), names suffixed P1; *)
(*   - the "lite" server        (src/unnamed/part_000, lines 1-158),       *)
(*     names suffixed Lite;                                                *)
(*   - the "start" server       (src/unnamed/part_000, lines 160-321),     *)
(*     names suffixed St.                                                  *)
(*                                                                         *)
(* The Session Client (the Baileys socket) is an external collaborator: a  *)
(* client is "connecting", then possibly "open", and ends "closed" once    *)
(* its close event has been delivered.  sock.end() and sock.logout() leave *)
(* it terminated with a close event that may still be delivered.           *)
(***************************************************************************)
EXTENDS Integers, Sequences, FiniteSets, TLC

VARIABLES
    sock,             \* the current client: 0 (null) or an index of clients
    qrCode,           \* 0 (null) or the pending pairing challenge
    isConnected,      \* definitive server flag
    isConnecting,     \* definitive server reentrancy flag
    connectionError,  \* "null", or the last error shown by /status
    connectionStatus, \* V4 server: "disconnected" | "waiting_qr" | "connected"
    rendering,        \* V4 server: challenges whose QRCode.toDataURL is awaited
    lastConnectedAt,  \* V4 server: -1 (null) or the day of the last open event
    messages,         \* the message buffer, newest first
    authDir,          \* AUTH_FOLDER: "absent" | "empty" | "creds"
    clients,          \* every client ever constructed, by index: its state
    timers,           \* pending setTimeout(connectWhatsApp, d), in the order scheduled
    starting,         \* origins of the connectWhatsApp calls suspended at their await
    pairingRequired,  \* a loggedOut close was handled and no explicit start since
    mediaFiles,       \* MEDIA_FOLDER: the files, each with its mtime in days
    mediaCache,       \* V4 mediaCache: the registered media records
    mediaSeq,         \* number of media ids generated so far
    now,              \* Date.now(), in days
    phoneIn,          \* argument of the last formatPhone call
    jidOut,           \* its result
    lastBatch,        \* argument of the last messages.upsert event
    recent,           \* body of the last GET /messages response
    handled,          \* inbound messages handled so far
    fetching,         \* V4 /send-image requests awaiting fetch(imageUrl)
    lastOp            \* the handler that ran last, and its outcome

vars == << sock, qrCode, isConnected, isConnecting, connectionError,
           connectionStatus, rendering, lastConnectedAt, messages, authDir, clients, timers, starting,
           pairingRequired, mediaFiles, mediaCache, mediaSeq, now,
           phoneIn, jidOut, lastBatch, recent, handled, fetching, lastOp >>

storeVars == << mediaFiles, mediaCache, mediaSeq, now >>
phoneVars == << phoneIn, jidOut >>
\* what the lifecycle handlers of the definitive server never touch
restVars == << connectionStatus, rendering, lastConnectedAt, messages, storeVars, phoneVars, lastBatch,
              recent, handled, fetching >>

-----------------------------------------------------------------------------
(* Bounds of the model *)

MaxClients  == 3   \* clients constructed in one run
MaxTimers   == 2   \* reconnect timers pending at once
MaxStarting == 2   \* connectWhatsApp calls suspended at once
MaxRendering == 1  \* QR renderings awaited at once

-----------------------------------------------------------------------------
(* Strings: a string is a sequence of symbols.  The domain name            *)
(* "s.whatsapp.net" and "g.us" are one symbol each.                        *)

Digits == {"5", "1"}
Null == << "<null>" >>
UserDomain == << "@", "s.whatsapp.net" >>

RECURSIVE OnlyDigits(_)
\* phone.replace(/\D/g, '')
OnlyDigits(s) ==
    IF s = << >> THEN << >>
    ELSE (IF Head(s) \in Digits THEN << Head(s) >> ELSE << >>) \o OnlyDigits(Tail(s))

\* phone.includes('@')
IncludesAt(s) == \E i \in 1..Len(s) : s[i] = "@"

\* formatPhone that appends the user domain to whatever it is given
formatPhoneAppends(phone) ==
    IF phone = Null \/ phone = << >> THEN Null ELSE phone \o UserDomain

\* formatPhone of the definitive server
formatPhone(phone) ==
    IF phone = Null \/ phone = << >> THEN Null
    ELSE IF IncludesAt(phone) THEN phone
    ELSE IF OnlyDigits(phone) = << >> THEN Null
    ELSE OnlyDigits(phone) \o UserDomain

-----------------------------------------------------------------------------
(* The Session Client, seen from the server *)

Live == {"connecting", "open"}
OpOrigins == {"boot", "reconnect"}     \* starts asked for by the operator
Reasons == {"loggedOut", "restartRequired", "connectionClosed",
            "connectionLost", "timedOut", "other"}
QrValues == {1, 2}

LiveClients == {c \in 1..Len(clients) : clients[c] \in Live}

RemoveAt(s, i) == SubSeq(s, 1, i - 1) \o SubSeq(s, i + 1, Len(s))

\* The record kept of the handler that ran last
Op(op, arg, cl) == [op |-> op, arg |-> arg, cl |-> cl]

\* setTimeout(connectWhatsApp, delay)
Schedule(src, delay) == Append(timers, [src |-> src, delay |-> delay])

\* sock.end(): a live client is terminated, its close event still to come
Ended(cs, c) ==
    IF c # 0 /\ cs[c] \in Live THEN [cs EXCEPT ![c] = "endPending"] ELSE cs

\* A timer can fire unless one scheduled before it is due no later.
Due(i) ==
    /\ i \in 1..Len(timers)
    /\ \A j \in 1..(i - 1) : timers[j].delay > timers[i].delay

-----------------------------------------------------------------------------
(* Definitive server: connectWhatsApp *)

\* The reentrancy guard
Guard == ~isConnecting

\* connectWhatsApp up to its first await
connectWhatsApp(src, rest) ==
    IF ~Guard
    THEN /\ timers' = rest
         /\ lastOp' = Op("start_noop", src, 0)
         /\ UNCHANGED << sock, qrCode, isConnected, isConnecting, connectionError,
                         authDir, clients, starting, pairingRequired >>
    ELSE /\ Len(starting) < MaxStarting
         /\ isConnecting' = TRUE
         /\ connectionError' = "null"
         /\ authDir' = IF authDir = "absent" THEN "empty" ELSE authDir
         /\ starting' = Append(starting, src)
         /\ timers' = rest
         /\ pairingRequired' = IF src \in OpOrigins THEN FALSE ELSE pairingRequired
         /\ lastOp' = Op("start_begin", src, 0)
         /\ UNCHANGED << sock, qrCode, isConnected, clients >>

\* A pending timer fires and calls connectWhatsApp
TimerFire ==
    \E i \in 1..Len(timers) :
        /\ Due(i)
        /\ connectWhatsApp(timers[i].src, RemoveAt(timers, i))
        /\ UNCHANGED restVars

\* connectWhatsApp after its awaits: makeWASocket and the subscriptions
StartConstruct ==
    \E k \in 1..Len(starting) :
    /\ Len(clients) < MaxClients
    /\ clients' = Append(clients, "connecting")
    /\ sock' = Len(clients) + 1
    /\ starting' = RemoveAt(starting, k)
    /\ lastOp' = Op("start_construct", starting[k], Len(clients) + 1)
    /\ UNCHANGED << qrCode, isConnected, isConnecting, connectionError, authDir,
                    timers, pairingRequired, restVars >>

\* connectWhatsApp: an exception inside the try block
StartFail ==
    \E k \in 1..Len(starting) :
    /\ Len(timers) < MaxTimers
    /\ starting' = RemoveAt(starting, k)
    /\ isConnecting' = FALSE
    /\ connectionError' = "connectFailed"
    /\ timers' = Schedule("fail", 10000)
    /\ lastOp' = Op("start_fail", starting[k], 0)
    /\ UNCHANGED << sock, qrCode, isConnected, authDir, clients, pairingRequired,
                    restVars >>

-----------------------------------------------------------------------------
(* Definitive server: the connection.update handler *)

\* update.qr
EvQr ==
    \E c \in 1..Len(clients), q \in QrValues :
        /\ clients[c] = "connecting"
        /\ qrCode' = q
        /\ isConnected' = FALSE
        /\ lastOp' = Op("qr", "null", c)
        /\ UNCHANGED << sock, isConnecting, connectionError, authDir, clients,
                        timers, starting, pairingRequired, restVars >>

\* update.connection === 'open'
EvOpen ==
    \E c \in 1..Len(clients) :
        /\ clients[c] = "connecting"
        /\ clients' = [clients EXCEPT ![c] = "open"]
        /\ isConnected' = TRUE
        /\ isConnecting' = FALSE
        /\ qrCode' = 0
        /\ connectionError' = "null"
        /\ lastOp' = Op("open", "null", c)
        /\ UNCHANGED << sock, authDir, timers, starting, pairingRequired, restVars >>

\* The close events client c can deliver
CloseReasons(c) ==
    CASE clients[c] \in Live -> Reasons
      [] clients[c] = "endPending" -> {"other"}
      [] clients[c] = "logoutPending" -> {"loggedOut"}
      [] OTHER -> {}

\* One delay for every close reason
CloseDelayFlat(reason) == 1000

\* The reconnect delay of a close reason other than loggedOut
CloseDelay(reason) ==
    CASE reason = "restartRequired" -> 1000
      [] reason \in {"connectionClosed", "connectionLost", "timedOut"} -> 3000
      [] OTHER -> 5000

\* A close handler that leaves the reentrancy flag as it found it
EvCloseKeepsFlag ==
    \E c \in 1..Len(clients) : \E reason \in CloseReasons(c) :
        /\ clients' = [clients EXCEPT ![c] = "closed"]
        /\ isConnected' = FALSE
        /\ qrCode' = 0
        /\ IF reason = "loggedOut"
           THEN /\ authDir' = "absent"
                /\ connectionError' = "loggedOut"
                /\ pairingRequired' = TRUE
                /\ UNCHANGED timers
           ELSE /\ Len(timers) < MaxTimers
                /\ timers' = Schedule("close", CloseDelay(reason))
                /\ UNCHANGED << authDir, connectionError, pairingRequired >>
        /\ lastOp' = Op("close", reason, c)
        /\ UNCHANGED << sock, isConnecting, starting, restVars >>

\* update.connection === 'close'
EvClose ==
    \E c \in 1..Len(clients) : \E reason \in CloseReasons(c) :
        /\ clients' = [clients EXCEPT ![c] = "closed"]
        /\ isConnected' = FALSE
        /\ isConnecting' = FALSE
        /\ qrCode' = 0
        /\ IF reason = "loggedOut"
           THEN /\ authDir' = "absent"
                /\ connectionError' = "loggedOut"
                /\ pairingRequired' = TRUE
                /\ UNCHANGED timers
           ELSE /\ Len(timers) < MaxTimers
                /\ timers' = Schedule("close", CloseDelay(reason))
                /\ UNCHANGED << authDir, connectionError, pairingRequired >>
        /\ lastOp' = Op("close", reason, c)
        /\ UNCHANGED << sock, starting, restVars >>

\* creds.update: saveCreds writes into AUTH_FOLDER
EvCreds ==
    \E c \in 1..Len(clients) :
        /\ clients[c] \in Live
        /\ authDir' = IF authDir = "absent" THEN "absent" ELSE "creds"
        /\ lastOp' = Op("creds", "null", c)
        /\ UNCHANGED << sock, qrCode, isConnected, isConnecting, connectionError,
                        clients, timers, starting, pairingRequired, restVars >>

-----------------------------------------------------------------------------
(* Definitive server: the request surface *)

Targets == { << >>, << "5" >>, << "x" >>, << "x", "@", "s.whatsapp.net" >> }

\* The answer of POST /send before anything is forwarded, "forward" if none
SendCheck(to, hasContent) ==
    IF to = << >> \/ ~hasContent THEN "missing"
    ELSE IF ~isConnected \/ sock = 0 THEN "NotConnected"
    ELSE IF formatPhone(to) = Null THEN "InvalidTarget"
    ELSE "forward"

\* POST /send: lastOp.cl is the client sock.sendMessage was called on, 0 if none
Send ==
    \E to \in Targets, hasContent \in BOOLEAN, ok \in BOOLEAN :
        /\ IF SendCheck(to, hasContent) # "forward"
           THEN /\ ok
                /\ lastOp' = Op("send", SendCheck(to, hasContent), 0)
           ELSE /\ ok => clients[sock] = "open"
                /\ lastOp' = Op("send", IF ok THEN "sent" ELSE "SendFailed", sock)
        /\ UNCHANGED << sock, qrCode, isConnected, isConnecting, connectionError,
                        authDir, clients, timers, starting, pairingRequired,
                        restVars >>

\* The answer of the start server's POST /send before anything is forwarded
SendCheckStart(to, hasText) ==
    IF sock = 0 THEN "NotConnected"
    ELSE IF to = << >> \/ ~hasText THEN "missing"
    ELSE "forward"

\* POST /send of the start server, on the session state it shares with the
\* definitive server (sock, isConnected)
SendStart ==
    \E to \in Targets, hasText \in BOOLEAN, ok \in BOOLEAN :
        /\ IF SendCheckStart(to, hasText) # "forward"
           THEN /\ ok
                /\ lastOp' = Op("sendStart", SendCheckStart(to, hasText), 0)
           ELSE /\ ok => clients[sock] = "open"
                /\ lastOp' = Op("sendStart", IF ok THEN "sent" ELSE "SendFailed", sock)
        /\ UNCHANGED << sock, qrCode, isConnected, isConnecting, connectionError,
                        authDir, clients, timers, starting, pairingRequired,
                        restVars >>

\* POST /logout that clears the session whether sock.logout() throws or not
LogoutClearsOnError ==
    \E ok \in BOOLEAN :
        /\ ~ok => sock # 0
        /\ clients' = IF ok /\ sock # 0 /\ clients[sock] \in Live
                      THEN [clients EXCEPT ![sock] = "logoutPending"]
                      ELSE clients
        /\ isConnected' = FALSE
        /\ isConnecting' = FALSE
        /\ qrCode' = 0
        /\ authDir' = "absent"
        /\ lastOp' = Op("logout", IF ok THEN "ok" ELSE "error", sock)
        /\ UNCHANGED << sock, connectionError, timers, starting, pairingRequired,
                        restVars >>

\* POST /logout
Logout ==
    \E ok \in BOOLEAN :
        /\ ~ok => sock # 0
        /\ IF ~ok
           THEN /\ lastOp' = Op("logout", "error", sock)
                /\ UNCHANGED << isConnected, isConnecting, qrCode, authDir, clients >>
           ELSE /\ clients' = IF sock # 0 /\ clients[sock] \in Live
                              THEN [clients EXCEPT ![sock] = "logoutPending"]
                              ELSE clients
                /\ isConnected' = FALSE
                /\ isConnecting' = FALSE
                /\ qrCode' = 0
                /\ authDir' = "absent"
                /\ lastOp' = Op("logout", "ok", sock)
        /\ UNCHANGED << sock, connectionError, timers, starting, pairingRequired,
                        restVars >>

\* POST /reconnect
Reconnect ==
    /\ Len(timers) < MaxTimers
    /\ clients' = Ended(clients, sock)
    /\ isConnected' = FALSE
    /\ isConnecting' = FALSE
    /\ qrCode' = 0
    /\ timers' = Schedule("reconnect", 1000)
    /\ lastOp' = Op("reconnect", "null", sock)
    /\ UNCHANGED << sock, connectionError, authDir, starting, pairingRequired,
                    restVars >>

-----------------------------------------------------------------------------
(* The definitive server as a whole.  The initial state is the one left by *)
(* the app.listen callback: connectWhatsApp has been called once and is    *)
(* suspended at its first await.                                           *)

Init ==
    /\ sock = 0
    /\ qrCode = 0
    /\ isConnected = FALSE
    /\ isConnecting = TRUE
    /\ connectionError = "null"
    /\ connectionStatus = "disconnected"
    /\ rendering = << >>
    /\ lastConnectedAt = -1
    /\ messages = << >>
    /\ authDir \in {"empty", "creds"}
    /\ clients = << >>
    /\ timers = << >>
    /\ starting = << "boot" >>
    /\ pairingRequired = FALSE
    /\ mediaFiles = {}
    /\ mediaCache = {}
    /\ mediaSeq = 0
    /\ now = 0
    /\ phoneIn = Null
    /\ jidOut = Null
    /\ lastBatch = << >>
    /\ recent = << >>
    /\ handled = 0
    /\ fetching = << >>
    /\ lastOp = Op("start_begin", "boot", 0)

Next ==
    \/ TimerFire
    \/ StartConstruct
    \/ StartFail
    \/ EvQr
    \/ EvOpen
    \/ EvClose
    \/ EvCreds
    \/ Send
    \/ SendStart
    \/ Logout
    \/ Reconnect

Spec == Init /\ [][Next]_vars

-----------------------------------------------------------------------------
(* V4 server: connectWhatsApp has no guard and suspends at once, at        *)
(* useMultiFileAuthState; the status is the single connectionStatus.       *)

\* what the lifecycle handlers of the V4 server never touch
restVarsV4 == << isConnected, isConnecting, connectionError, storeVars,
                 phoneVars, lastBatch, recent, handled, fetching >>

\* connectWhatsApp up to its first await
connectWhatsAppV4(src, rest) ==
    /\ Len(starting) < MaxStarting
    /\ starting' = Append(starting, src)
    /\ timers' = rest
    /\ pairingRequired' = IF src = "logout" THEN FALSE ELSE pairingRequired
    /\ lastOp' = Op("start_begin", src, 0)
    /\ UNCHANGED << sock, qrCode, connectionStatus, rendering, lastConnectedAt, messages, authDir,
                    clients >>

\* A pending timer fires and calls connectWhatsApp
TimerFireV4 ==
    \E i \in 1..Len(timers) :
        /\ Due(i)
        /\ connectWhatsAppV4(timers[i].src, RemoveAt(timers, i))
        /\ UNCHANGED restVarsV4

\* connectWhatsApp after its await: makeWASocket and the subscriptions
StartConstructV4 ==
    \E k \in 1..Len(starting) :
        /\ Len(clients) < MaxClients
        /\ clients' = Append(clients, "connecting")
        /\ sock' = Len(clients) + 1
        /\ starting' = RemoveAt(starting, k)
        /\ lastOp' = Op("start_construct", starting[k], Len(clients) + 1)
        /\ UNCHANGED << qrCode, connectionStatus, rendering, lastConnectedAt, messages, authDir,
                        timers, pairingRequired, lastConnectedAt, restVarsV4 >>

\* connectWhatsApp: an exception inside the try block
StartFailV4 ==
    \E k \in 1..Len(starting) :
        /\ Len(timers) < MaxTimers
        /\ starting' = RemoveAt(starting, k)
        /\ timers' = Schedule("fail", 10000)
        /\ lastOp' = Op("start_fail", starting[k], 0)
        /\ UNCHANGED << sock, qrCode, connectionStatus, rendering, lastConnectedAt, messages,
                        authDir, clients, pairingRequired, lastConnectedAt, restVarsV4 >>

\* connection.update with update.qr, up to await QRCode.toDataURL(qr)
EvQrV4 ==
    \E c \in 1..Len(clients), q \in QrValues :
        /\ clients[c] = "connecting"
        /\ Len(rendering) < MaxRendering
        /\ rendering' = Append(rendering, q)
        /\ lastOp' = Op("qr", "null", c)
        /\ UNCHANGED << sock, qrCode, connectionStatus, messages, authDir, clients,
                        timers, starting, pairingRequired, lastConnectedAt, restVarsV4 >>

\* ... and after it: the data URL is stored, or the error is logged
QrRenderedV4 ==
    \E k \in 1..Len(rendering), ok \in BOOLEAN :
        /\ rendering' = RemoveAt(rendering, k)
        /\ IF ok
           THEN qrCode' = rendering[k] /\ connectionStatus' = "waiting_qr"
           ELSE UNCHANGED << qrCode, connectionStatus >>
        /\ lastOp' = Op("qr_rendered", IF ok THEN "ok" ELSE "error", 0)
        /\ UNCHANGED << sock, messages, authDir, clients, timers, starting,
                        pairingRequired, lastConnectedAt, restVarsV4 >>

\* The open branch of V4 without `qrCode = null`
EvOpenKeepsQrV4 ==
    \E c \in 1..Len(clients) :
        /\ clients[c] = "connecting"
        /\ clients' = [clients EXCEPT ![c] = "open"]
        /\ connectionStatus' = "connected"
        /\ lastConnectedAt' = now
        /\ lastOp' = Op("open", "null", c)
        /\ UNCHANGED << sock, qrCode, rendering, messages, authDir, timers, starting,
                        pairingRequired, restVarsV4 >>

\* connection.update with connection === 'open'
EvOpenV4 ==
    \E c \in 1..Len(clients) :
        /\ clients[c] = "connecting"
        /\ clients' = [clients EXCEPT ![c] = "open"]
        /\ qrCode' = 0
        /\ connectionStatus' = "connected"
        /\ lastConnectedAt' = now
        /\ lastOp' = Op("open", "null", c)
        /\ UNCHANGED << sock, rendering, messages, authDir, timers, starting,
                        pairingRequired, restVarsV4 >>

\* The reconnect delay of a close reason other than loggedOut
CloseDelayV4(reason) == IF reason = "restartRequired" THEN 1000 ELSE 5000

\* connection.update with connection === 'close'
EvCloseV4 ==
    \E c \in 1..Len(clients) : \E reason \in CloseReasons(c) :
        /\ clients' = [clients EXCEPT ![c] = "closed"]
        /\ qrCode' = 0
        /\ connectionStatus' = "disconnected"
        /\ IF reason # "loggedOut"
           THEN /\ Len(timers) < MaxTimers
                /\ timers' = Schedule("close", CloseDelayV4(reason))
                /\ UNCHANGED << authDir, pairingRequired >>
           ELSE /\ authDir' = "empty"
                /\ pairingRequired' = TRUE
                /\ UNCHANGED timers
        /\ lastOp' = Op("close", reason, c)
        /\ UNCHANGED << sock, rendering, messages, starting, lastConnectedAt, restVarsV4 >>

\* creds.update: saveCreds writes into AUTH_FOLDER
EvCredsV4 ==
    \E c \in 1..Len(clients) :
        /\ clients[c] \in Live
        /\ authDir' = "creds"
        /\ lastOp' = Op("creds", "null", c)
        /\ UNCHANGED << sock, qrCode, connectionStatus, rendering, lastConnectedAt, messages,
                        clients, timers, starting, pairingRequired, lastConnectedAt, restVarsV4 >>

\* POST /logout without `messages = []`
LogoutKeepsBufferV4 ==
    \E ok \in BOOLEAN :
        /\ ~ok => sock # 0
        /\ IF ~ok
           THEN /\ lastOp' = Op("logout", "error", sock)
                /\ UNCHANGED << qrCode, connectionStatus, messages, authDir,
                                clients, timers >>
           ELSE /\ Len(timers) < MaxTimers
                /\ clients' = IF sock # 0 /\ clients[sock] \in Live
                              THEN [clients EXCEPT ![sock] = "logoutPending"]
                              ELSE clients
                /\ qrCode' = 0
                /\ connectionStatus' = "disconnected"
                /\ messages' = messages
                /\ authDir' = "empty"
                /\ timers' = Schedule("logout", 2000)
                /\ lastOp' = Op("logout", "ok", sock)
        /\ UNCHANGED << sock, rendering, starting, pairingRequired, lastConnectedAt, restVarsV4 >>

\* POST /logout
LogoutV4 ==
    \E ok \in BOOLEAN :
        /\ ~ok => sock # 0
        /\ IF ~ok
           THEN /\ lastOp' = Op("logout", "error", sock)
                /\ UNCHANGED << qrCode, connectionStatus, messages, authDir,
                                clients, timers >>
           ELSE /\ Len(timers) < MaxTimers
                /\ clients' = IF sock # 0 /\ clients[sock] \in Live
                              THEN [clients EXCEPT ![sock] = "logoutPending"]
                              ELSE clients
                /\ qrCode' = 0
                /\ connectionStatus' = "disconnected"
                /\ messages' = << >>
                /\ authDir' = "empty"
                /\ timers' = Schedule("logout", 2000)
                /\ lastOp' = Op("logout", "ok", sock)
        /\ UNCHANGED << sock, rendering, starting, pairingRequired, lastConnectedAt, restVarsV4 >>

\* The state left by the V4 server's app.listen callback
InitV4 ==
    /\ sock = 0
    /\ qrCode = 0
    /\ isConnected = FALSE
    /\ isConnecting = FALSE
    /\ connectionError = "null"
    /\ connectionStatus = "disconnected"
    /\ rendering = << >>
    /\ lastConnectedAt = -1
    /\ messages = << >>
    /\ authDir \in {"empty", "creds"}
    /\ clients = << >>
    /\ timers = << >>
    /\ starting = << "boot" >>
    /\ pairingRequired = FALSE
    /\ mediaFiles = {}
    /\ mediaCache = {}
    /\ mediaSeq = 0
    /\ now = 0
    /\ phoneIn = Null
    /\ jidOut = Null
    /\ lastBatch = << >>
    /\ recent = << >>
    /\ handled = 0
    /\ fetching = << >>
    /\ lastOp = Op("start_begin", "boot", 0)

NextV4 ==
    \/ TimerFireV4
    \/ StartConstructV4
    \/ StartFailV4
    \/ EvQrV4
    \/ QrRenderedV4
    \/ EvOpenV4
    \/ EvCloseV4
    \/ EvCredsV4
    \/ LogoutV4

SpecV4 == InitV4 /\ [][NextV4]_vars

-----------------------------------------------------------------------------
(* The message buffer: addMessage, pushMessage and GET /messages.  A       *)
(* record is its sequence number here: the n-th record appended is n.      *)

MAX_MESSAGES == 200
MaxAppends == 203    \* records appended in one run
QueryLimits == {-1, 0, 1, 2, 199, 200, 201}

Min(a, b) == IF a < b THEN a ELSE b
Max(a, b) == IF a > b THEN a ELSE b

\* Array.prototype.slice(0, end)
Slice0(s, end) ==
    SubSeq(s, 1, IF end < 0 THEN Max(Len(s) + end, 0) ELSE Min(end, Len(s)))

\* addMessage without the cut to MAX_MESSAGES
addMessageUncut(buf, msg) == << msg >> \o buf

\* addMessage cutting at the front: a full buffer loses the record just added
addMessageEvictsNewest(buf, msg) ==
    IF Len(<< msg >> \o buf) > MAX_MESSAGES
    THEN SubSeq(<< msg >> \o buf, 2, MAX_MESSAGES + 1)
    ELSE << msg >> \o buf

\* addMessage of the definitive server: unshift, then cut to MAX_MESSAGES
addMessage(buf, msg) ==
    IF Len(<< msg >> \o buf) > MAX_MESSAGES
    THEN Slice0(<< msg >> \o buf, MAX_MESSAGES)
    ELSE << msg >> \o buf

\* pushMessage of the start server: unshift, then slice(0, 200)
pushMessage(buf, msg) == Slice0(<< msg >> \o buf, 200)

\* parseInt(req.query.limit) || 50: an absent limit parses to NaN
ParseLimit(given, n) == IF ~given \/ n = 0 THEN 50 ELSE n

\* The sequence number of the next record
NextRecord == IF messages = << >> THEN 1 ELSE Head(messages) + 1

AddMessage ==
    /\ NextRecord <= MaxAppends
    /\ messages' = addMessage(messages, NextRecord)
    /\ lastOp' = Op("addMessage", "null", NextRecord)
    /\ UNCHANGED << sock, qrCode, isConnected, isConnecting, connectionError,
                    authDir, clients, timers, starting, pairingRequired,
                    connectionStatus, rendering, lastConnectedAt, storeVars, phoneVars, lastBatch,
                    recent, handled, fetching >>

PushMessage ==
    /\ NextRecord <= MaxAppends
    /\ messages' = pushMessage(messages, NextRecord)
    /\ lastOp' = Op("pushMessage", "null", NextRecord)
    /\ UNCHANGED << sock, qrCode, isConnected, isConnecting, connectionError,
                    authDir, clients, timers, starting, pairingRequired,
                    connectionStatus, rendering, lastConnectedAt, storeVars, phoneVars, lastBatch,
                    recent, handled, fetching >>

\* GET /messages of the definitive server; lastOp.cl is the limit asked for
GetMessages ==
    \E given \in BOOLEAN, n \in QueryLimits :
        /\ ~given => n = 0
        /\ recent' = Slice0(messages, ParseLimit(given, n))
        /\ lastOp' = Op("messages", IF given THEN "given" ELSE "absent", n)
        /\ UNCHANGED << sock, qrCode, isConnected, isConnecting, connectionError,
                        authDir, clients, timers, starting, pairingRequired,
                        connectionStatus, rendering, lastConnectedAt, messages, storeVars,
                        phoneVars, lastBatch, handled, fetching >>

InitBuffer ==
    /\ sock = 0
    /\ qrCode = 0
    /\ isConnected = FALSE
    /\ isConnecting = FALSE
    /\ connectionError = "null"
    /\ connectionStatus = "disconnected"
    /\ rendering = << >>
    /\ lastConnectedAt = -1
    /\ messages = << >>
    /\ authDir = "empty"
    /\ clients = << >>
    /\ timers = << >>
    /\ starting = << >>
    /\ pairingRequired = FALSE
    /\ mediaFiles = {}
    /\ mediaCache = {}
    /\ mediaSeq = 0
    /\ now = 0
    /\ phoneIn = Null
    /\ jidOut = Null
    /\ lastBatch = << >>
    /\ recent = << >>
    /\ handled = 0
    /\ fetching = << >>
    /\ lastOp = Op("init", "null", 0)

NextBuffer ==
    \/ AddMessage
    \/ PushMessage
    \/ GetMessages

SpecBuffer == InitBuffer /\ [][NextBuffer]_vars

-----------------------------------------------------------------------------
(* Address normalization: formatPhone of the definitive and lite servers   *)

MaxPhoneLen == 3
Symbols == Digits \cup {"x", "+", "@", "s.whatsapp.net"}
PhoneInputs ==
    { Null } \cup UNION { [1..n -> Symbols] : n \in 0..MaxPhoneLen }

\* formatPhone of the lite server
formatPhoneLite(phone) ==
    IF phone = Null \/ phone = << >> THEN Null
    ELSE IF IncludesAt(phone) THEN phone
    ELSE OnlyDigits(phone) \o UserDomain

FormatPhone ==
    /\ jidOut' = formatPhone(phoneIn)
    /\ lastOp' = Op("formatPhone", "definitive", 0)
    /\ UNCHANGED << sock, qrCode, isConnected, isConnecting, connectionError,
                    authDir, clients, timers, starting, pairingRequired,
                    connectionStatus, rendering, lastConnectedAt, messages, storeVars, phoneIn,
                    lastBatch, recent, handled, fetching >>

FormatPhoneLite ==
    /\ jidOut' = formatPhoneLite(phoneIn)
    /\ lastOp' = Op("formatPhone", "lite", 0)
    /\ UNCHANGED << sock, qrCode, isConnected, isConnecting, connectionError,
                    authDir, clients, timers, starting, pairingRequired,
                    connectionStatus, rendering, lastConnectedAt, messages, storeVars, phoneIn,
                    lastBatch, recent, handled, fetching >>

InitPhone ==
    /\ sock = 0
    /\ qrCode = 0
    /\ isConnected = FALSE
    /\ isConnecting = FALSE
    /\ connectionError = "null"
    /\ connectionStatus = "disconnected"
    /\ rendering = << >>
    /\ lastConnectedAt = -1
    /\ messages = << >>
    /\ authDir = "empty"
    /\ clients = << >>
    /\ timers = << >>
    /\ starting = << >>
    /\ pairingRequired = FALSE
    /\ mediaFiles = {}
    /\ mediaCache = {}
    /\ mediaSeq = 0
    /\ now = 0
    /\ phoneIn \in PhoneInputs
    /\ jidOut = Null
    /\ lastBatch = << >>
    /\ recent = << >>
    /\ handled = 0
    /\ fetching = << >>
    /\ lastOp = Op("init", "null", 0)

NextPhone ==
    \/ FormatPhone
    \/ FormatPhoneLite

SpecPhone == InitPhone /\ [][NextPhone]_vars

-----------------------------------------------------------------------------
(* Inbound batches: the messages.upsert handlers of the definitive server, *)
(* of part_001 and of V4, and V4's downloadAndSaveMedia.                   *)
(* An inbound message is its remoteJid, whether it has a message body, the *)
(* text fields of that body, its media kind and caption, and what          *)
(* downloadMediaMessage yields for it: a payload, an empty payload, no     *)
(* payload, or an exception.                                               *)

MAX_MESSAGES_V4 == 500
MaxBatch == 2      \* messages in one inbound batch
MaxInbox == 2      \* inbound messages handled in one run, direct downloads included

StatusJid == "status@broadcast"
GroupJids == {"1@g.us"}
Jids == {"5@s.whatsapp.net", StatusJid} \cup GroupJids
MediaKinds == {"image", "video"}
Downloads == {"ok", "empty", "absent", "throw"}

\* from?.endsWith('@g.us')
IsGroup(jid) == jid \in GroupJids

InboundMsgs ==
    { m \in [jid : Jids, id : {0}, hasMessage : BOOLEAN, conversation : {"", "hi"},
             extText : {"", "ext"}, media : {"none"} \cup MediaKinds,
             caption : {"", "cap"}, dl : Downloads] :
        /\ ~m.hasMessage => (m.conversation = "" /\ m.extText = "" /\ m.media = "none")
        /\ m.conversation # "" => (m.extText = "" /\ m.media = "none")
        /\ m.extText # "" => m.media = "none"
        /\ m.media = "none" => (m.caption = "" /\ m.dl = "ok")
        /\ m.dl # "ok" => (m.caption = "" /\ m.media = "image")
        /\ m.jid = StatusJid => (m.extText = "" /\ m.media = "none") }

\* msg.key.id: the position of the message in its batch
Keyed(m, i) == [m EXCEPT !.id = i]

\* The batches of n messages
Batches(n) == { [i \in 1..n |-> Keyed(f[i], i)] : f \in [1..n -> InboundMsgs] }

BatchTypes == {"notify", "append"}

\* mediaData.mimetype of the media kinds above
Mimetype(m) == IF m.media = "image" THEN "image/jpeg" ELSE "video/webm"

getExtensionFromMimetype(mimetype) ==
    IF mimetype = "image/jpeg" THEN "jpg"
    ELSE IF mimetype = "video/mp4" THEN "mp4"
    ELSE "bin"

\* The null result of downloadAndSaveMedia
NullMedia == [id |-> 0, ext |-> "", type |-> "", caption |-> "", createdAt |-> 0]

\* downloadAndSaveMedia with the empty-payload check left out: an empty
\* payload is written like any other, an absent one makes writeFileSync throw
downloadAndSaveMediaUnchecked(m, st) ==
    IF ~m.hasMessage \/ m.media = "none" \/ m.dl \in {"throw", "absent"}
    THEN [st EXCEPT !.info = NullMedia]
    ELSE LET ext == getExtensionFromMimetype(Mimetype(m))
             mediaId == st.seq + 1
             info == [id |-> mediaId, ext |-> ext, type |-> m.media,
                      caption |-> m.caption, createdAt |-> st.now]
         IN  [info |-> info,
              files |-> st.files \cup { [id |-> mediaId, ext |-> ext, mtime |-> st.now] },
              cache |-> st.cache \cup { info },
              seq |-> mediaId,
              now |-> st.now]

\* downloadAndSaveMedia of V4 on the store st = [files, cache, seq, now, info]:
\* the result is st.info, NullMedia for null
downloadAndSaveMedia(m, st) ==
    IF ~m.hasMessage THEN [st EXCEPT !.info = NullMedia]
    ELSE IF m.media = "none" THEN [st EXCEPT !.info = NullMedia]
    ELSE IF m.dl = "throw" THEN [st EXCEPT !.info = NullMedia]
    ELSE IF m.dl \in {"absent", "empty"} THEN [st EXCEPT !.info = NullMedia]
    ELSE LET ext == getExtensionFromMimetype(Mimetype(m))
             mediaId == st.seq + 1
             info == [id |-> mediaId, ext |-> ext, type |-> m.media,
                      caption |-> m.caption, createdAt |-> st.now]
         IN  [info |-> info,
              files |-> st.files \cup { [id |-> mediaId, ext |-> ext, mtime |-> st.now] },
              cache |-> st.cache \cup { info },
              seq |-> mediaId,
              now |-> st.now]

Store == [info |-> NullMedia, files |-> mediaFiles, cache |-> mediaCache,
          seq |-> mediaSeq, now |-> now]

\* Object.keys(msg.message)[0]
MsgType(m) ==
    IF m.conversation # "" THEN "conversation"
    ELSE IF m.extText # "" THEN "extendedTextMessage"
    ELSE IF m.media = "image" THEN "imageMessage"
    ELSE IF m.media = "video" THEN "videoMessage"
    ELSE "protocolMessage"

\* The text of a record in the definitive server
Text(m) ==
    IF m.conversation # "" THEN m.conversation
    ELSE IF m.extText # "" THEN m.extText
    ELSE IF m.media = "image" /\ m.caption # "" THEN m.caption
    ELSE IF m.media = "video" /\ m.caption # "" THEN m.caption
    ELSE ""

\* The text of a record in part_001
TextP1(m) ==
    IF m.conversation # "" THEN m.conversation
    ELSE IF m.extText # "" THEN m.extText
    ELSE IF m.media = "image" /\ m.caption # "" THEN m.caption
    ELSE ""

Parsed(m, text) ==
    [id |-> m.id, from |-> m.jid, text |-> text, type |-> MsgType(m), media |-> 0]

\* The loop of the definitive server's handler over a batch
RECURSIVE UpsertLoop(_, _)
UpsertLoop(batch, buf) ==
    IF batch = << >> THEN buf
    ELSE LET msg == Head(batch)
         IN  IF ~msg.hasMessage THEN UpsertLoop(Tail(batch), buf)
             ELSE IF msg.jid = StatusJid \/ IsGroup(msg.jid)
                  THEN UpsertLoop(Tail(batch), buf)
             ELSE UpsertLoop(Tail(batch), addMessage(buf, Parsed(msg, Text(msg))))

\* The loop of part_001's handler over a batch
RECURSIVE UpsertLoopP1(_, _)
UpsertLoopP1(batch, buf) ==
    IF batch = << >> THEN buf
    ELSE LET msg == Head(batch)
         IN  IF ~msg.hasMessage THEN UpsertLoopP1(Tail(batch), buf)
             ELSE IF msg.jid = StatusJid \/ IsGroup(msg.jid)
                  THEN UpsertLoopP1(Tail(batch), buf)
             ELSE UpsertLoopP1(Tail(batch), addMessage(buf, Parsed(msg, TextP1(msg))))

\* One message of V4's loop: the store after the download and the record
ProcessedV4(msg, st) ==
    LET dl == IF msg.conversation # "" \/ msg.extText # "" \/ msg.media = "none"
              THEN [st EXCEPT !.info = NullMedia]
              ELSE downloadAndSaveMedia(msg, st)
        content == IF msg.conversation # "" THEN msg.conversation
                   ELSE IF msg.extText # "" THEN msg.extText
                   ELSE IF dl.info.id = 0 THEN ""
                   ELSE IF dl.info.caption # "" THEN dl.info.caption
                   ELSE "[" \o dl.info.type \o "]"
    IN  [st |-> dl,
         rec |-> [id |-> msg.id, from |-> msg.jid, text |-> content,
                  type |-> IF dl.info.id = 0 THEN "text" ELSE dl.info.type,
                  media |-> dl.info.id]]

\* The loop of V4's handler over a batch; r = [buf, st]
RECURSIVE UpsertLoopV4(_, _)
UpsertLoopV4(batch, r) ==
    IF batch = << >> THEN r
    ELSE LET msg == Head(batch)
         IN  IF ~msg.hasMessage THEN UpsertLoopV4(Tail(batch), r)
             ELSE IF msg.jid = StatusJid THEN UpsertLoopV4(Tail(batch), r)
             ELSE LET p == ProcessedV4(msg, r.st)
                      grown == << p.rec >> \o r.buf
                  IN  UpsertLoopV4(Tail(batch),
                          [buf |-> IF Len(grown) > MAX_MESSAGES_V4
                                   THEN Slice0(grown, MAX_MESSAGES_V4) ELSE grown,
                           st |-> p.st])

\* messages.upsert without the test of the batch type
UpsertAnyType ==
    \E n \in 0..Min(MaxBatch, MaxInbox - handled), type \in BatchTypes :
      \E batch \in Batches(n) :
        /\ handled' = handled + Len(batch)
        /\ UNCHANGED fetching
        /\ lastBatch' = batch
        /\ messages' = UpsertLoop(batch, messages)
        /\ lastOp' = Op("upsert", type, 0)
        /\ UNCHANGED << sock, qrCode, isConnected, isConnecting, connectionError,
                        authDir, clients, timers, starting, pairingRequired,
                        connectionStatus, rendering, lastConnectedAt, storeVars, phoneVars, recent >>

\* messages.upsert of the definitive server
Upsert ==
    \E n \in 0..Min(MaxBatch, MaxInbox - handled), type \in BatchTypes :
      \E batch \in Batches(n) :
        /\ handled' = handled + Len(batch)
        /\ UNCHANGED fetching
        /\ lastBatch' = batch
        /\ messages' = IF type # "notify" THEN messages ELSE UpsertLoop(batch, messages)
        /\ lastOp' = Op("upsert", type, 0)
        /\ UNCHANGED << sock, qrCode, isConnected, isConnecting, connectionError,
                        authDir, clients, timers, starting, pairingRequired,
                        connectionStatus, rendering, lastConnectedAt, storeVars, phoneVars, recent >>

\* messages.upsert of part_001
UpsertP1 ==
    \E n \in 0..Min(MaxBatch, MaxInbox - handled), type \in BatchTypes :
      \E batch \in Batches(n) :
        /\ handled' = handled + Len(batch)
        /\ UNCHANGED fetching
        /\ lastBatch' = batch
        /\ messages' = IF type # "notify" THEN messages ELSE UpsertLoopP1(batch, messages)
        /\ lastOp' = Op("upsertP1", type, 0)
        /\ UNCHANGED << sock, qrCode, isConnected, isConnecting, connectionError,
                        authDir, clients, timers, starting, pairingRequired,
                        connectionStatus, rendering, lastConnectedAt, storeVars, phoneVars, recent >>

\* messages.upsert of V4
UpsertV4 ==
    \E n \in 0..Min(MaxBatch, MaxInbox - handled), type \in BatchTypes :
      \E batch \in Batches(n) :
        /\ handled' = handled + Len(batch)
        /\ UNCHANGED fetching
        /\ lastBatch' = batch
        /\ LET r == IF type # "notify" THEN [buf |-> messages, st |-> Store]
                    ELSE UpsertLoopV4(batch, [buf |-> messages, st |-> Store])
           IN  /\ messages' = r.buf
               /\ mediaFiles' = r.st.files
               /\ mediaCache' = r.st.cache
               /\ mediaSeq' = r.st.seq
               /\ now' = now
        /\ lastOp' = Op("upsertV4", type, 0)
        /\ UNCHANGED << sock, qrCode, isConnected, isConnecting, connectionError,
                        authDir, clients, timers, starting, pairingRequired,
                        connectionStatus, rendering, lastConnectedAt, phoneVars, recent >>

\* downloadAndSaveMedia of V4 on one message; lastOp.cl is the id of the
\* media record it returns, 0 for null
DownloadAndSaveMedia ==
    \E m \in InboundMsgs :
        /\ handled < MaxInbox
        /\ handled' = handled + 1
        /\ UNCHANGED fetching
        /\ lastBatch' = << m >>
        /\ LET st == downloadAndSaveMedia(m, Store)
           IN  /\ mediaFiles' = st.files
               /\ mediaCache' = st.cache
               /\ mediaSeq' = st.seq
               /\ now' = now
               /\ lastOp' = Op("downloadAndSaveMedia",
                               IF m.media = "none" THEN "none" ELSE m.dl, st.info.id)
        /\ UNCHANGED << sock, qrCode, isConnected, isConnecting, connectionError,
                        authDir, clients, timers, starting, pairingRequired,
                        connectionStatus, rendering, lastConnectedAt, messages, phoneVars, recent >>

NextInbound ==
    \/ Upsert
    \/ UpsertP1
    \/ UpsertV4
    \/ DownloadAndSaveMedia

SpecInbound == InitBuffer /\ [][NextInbound]_vars

-----------------------------------------------------------------------------
(* The media store of V4 over time: downloadAndSaveMedia and the daily     *)
(* cleanupOldMedia.  Time is counted in days.                              *)

maxAge == 7
MaxDay == 8        \* days one run lasts

\* The test of cleanupOldMedia with >= for >
ExpiredAtLimit(mtime, t) == t - mtime >= maxAge

\* now - stats.mtimeMs > maxAge
Expired(mtime, t) == t - mtime > maxAge

\* The orders in which readdirSync may list the files
Listings(files) ==
    { o \in [1..Cardinality(files) -> files] :
        \A i, j \in 1..Cardinality(files) : i # j => o[i] # o[j] }

FsCalls == {"statSync", "unlinkSync"}

\* The forEach of cleanupOldMedia from entry i of the listing on; the call
\* failOp throws on entry failAt (0: nothing throws), which ends the loop
RECURSIVE cleanupLoop(_, _, _, _, _, _)
cleanupLoop(listing, i, failAt, failOp, files, t) ==
    IF i > Len(listing) THEN [files |-> files, error |-> FALSE]
    ELSE IF i = failAt /\ failOp = "statSync" THEN [files |-> files, error |-> TRUE]
    ELSE IF ~Expired(listing[i].mtime, t)
         THEN cleanupLoop(listing, i + 1, failAt, failOp, files, t)
    ELSE IF i = failAt THEN [files |-> files, error |-> TRUE]
    ELSE cleanupLoop(listing, i + 1, failAt, failOp, files \ { listing[i] }, t)

\* cleanupOldMedia; lastOp.cl is the number of files it removed
CleanupOldMedia ==
    \E listing \in Listings(mediaFiles), failAt \in 0..Cardinality(mediaFiles),
       failOp \in FsCalls :
        /\ failAt = 0 => failOp = "statSync"
        /\ (failAt > 0 /\ failOp = "unlinkSync") => Expired(listing[failAt].mtime, now)
        /\ LET r == cleanupLoop(listing, 1, failAt, failOp, mediaFiles, now)
           IN  /\ mediaFiles' = r.files
               /\ lastOp' = Op("cleanupOldMedia", IF r.error THEN "error" ELSE "ok",
                               Cardinality(mediaFiles) - Cardinality(r.files))
        /\ UNCHANGED << sock, qrCode, isConnected, isConnecting, connectionError,
                        authDir, clients, timers, starting, pairingRequired,
                        connectionStatus, rendering, lastConnectedAt, messages, mediaCache, mediaSeq,
                        now, phoneVars, recent, handled, fetching >>
        /\ lastBatch' = << >>

\* A day passes; no message is in hand between two handlers
Tick ==
    /\ now < MaxDay
    /\ now' = now + 1
    /\ lastOp' = Op("tick", "null", 0)
    /\ UNCHANGED << sock, qrCode, isConnected, isConnecting, connectionError,
                    authDir, clients, timers, starting, pairingRequired,
                    connectionStatus, rendering, lastConnectedAt, messages, mediaFiles, mediaCache,
                    mediaSeq, phoneVars, recent, handled, fetching >>
    /\ lastBatch' = << >>

NextMedia ==
    \/ DownloadAndSaveMedia
    \/ CleanupOldMedia
    \/ Tick

SpecMedia == InitBuffer /\ [][NextMedia]_vars

-----------------------------------------------------------------------------
(* Outbound messages of the definitive server: POST /send while connected, *)
(* and the messages.upsert event by which the client reports the message   *)
(* it has sent.  The handler of that event is the only caller of           *)
(* addMessage.                                                             *)

OutTargets == { << "5" >>, << "1", "@", "g.us" >> }

\* The characters of a jid as one string
RECURSIVE Joined(_)
Joined(s) == IF s = << >> THEN "" ELSE Head(s) \o Joined(Tail(s))

\* The message the client reports for a text sent to jid
OwnMessage(jid) ==
    [jid |-> Joined(jid), id |-> 1, hasMessage |-> TRUE, conversation |-> "hi",
     extText |-> "", media |-> "none", caption |-> "", dl |-> "ok"]

\* POST /send with a text, in a run of SpecOutbound
SendText ==
    \E to \in OutTargets, ok \in BOOLEAN :
        /\ handled < MaxInbox
        /\ handled' = handled + 1
        /\ UNCHANGED fetching
        /\ SendCheck(to, TRUE) = "forward"
        /\ ok => clients[sock] = "open"
        /\ phoneIn' = to
        /\ jidOut' = formatPhone(to)
        /\ lastBatch' = IF ok THEN << OwnMessage(formatPhone(to)) >> ELSE << >>
        /\ lastOp' = Op("send", IF ok THEN "sent" ELSE "SendFailed", sock)
        /\ UNCHANGED << sock, qrCode, isConnected, isConnecting, connectionError,
                        authDir, clients, timers, starting, pairingRequired,
                        connectionStatus, rendering, lastConnectedAt, messages, storeVars, recent >>

\* messages.upsert for the message just sent
OwnUpsert ==
    \E type \in BatchTypes :
        /\ lastOp.op = "send" /\ lastOp.arg = "sent"
        /\ messages' = IF type # "notify" THEN messages
                       ELSE UpsertLoop(lastBatch, messages)
        /\ lastOp' = Op("ownUpsert", type, sock)
        /\ UNCHANGED << sock, qrCode, isConnected, isConnecting, connectionError,
                        authDir, clients, timers, starting, pairingRequired,
                        connectionStatus, rendering, lastConnectedAt, storeVars, phoneVars, lastBatch,
                        recent, handled, fetching >>

\* The definitive server with its client open
InitOutbound ==
    /\ sock = 1
    /\ qrCode = 0
    /\ isConnected = TRUE
    /\ isConnecting = FALSE
    /\ connectionError = "null"
    /\ connectionStatus = "disconnected"
    /\ rendering = << >>
    /\ lastConnectedAt = -1
    /\ messages = << >>
    /\ authDir = "creds"
    /\ clients = << "open" >>
    /\ timers = << >>
    /\ starting = << >>
    /\ pairingRequired = FALSE
    /\ mediaFiles = {}
    /\ mediaCache = {}
    /\ mediaSeq = 0
    /\ now = 0
    /\ phoneIn = Null
    /\ jidOut = Null
    /\ lastBatch = << >>
    /\ recent = << >>
    /\ handled = 0
    /\ fetching = << >>
    /\ lastOp = Op("open", "null", 1)

NextOutbound ==
    \/ SendText
    \/ OwnUpsert
    \/ Upsert

SpecOutbound == InitOutbound /\ [][NextOutbound]_vars

-----------------------------------------------------------------------------
(* Claims about the session lifecycle *)

\* C1: in every reachable state at most one Session Client that has not
\* been terminated (neither closed nor ended) exists.
C1_AtMostOneLiveClient == Cardinality(LiveClients) <= 1

\* C2: a connectWhatsApp call made while the current client is still
\* connecting (it has seen neither open nor close) is a no-op: no call is
\* left suspended, no client is constructed and sock is not replaced.
C2_SecondStartIsNoop ==
    [][ (lastOp'.op \in {"start_begin", "start_noop"}
         /\ sock # 0 /\ clients[sock] = "connecting"
         /\ connectionStatus \in {"disconnected", "waiting_qr"})
            => (starting' = starting /\ clients' = clients /\ sock' = sock) ]_vars

\* C3: a loggedOut close leaves the credential directory empty or absent,
\* schedules no reconnect and constructs no client, and from then on no
\* client is constructed by a start that a reconnect timer of a close
\* event or of a connect failure made, until the operator asks for a start.
C3_LoggedOutStaysDown ==
    [][ /\ (lastOp'.op = "close" /\ lastOp'.arg = "loggedOut")
            => (authDir' \in {"absent", "empty"} /\ timers' = timers
                /\ clients' = [clients EXCEPT ![lastOp'.cl] = "closed"])
        /\ (pairingRequired /\ lastOp'.op = "start_construct")
            => lastOp'.arg \in OpOrigins ]_vars

\* C4: a close with a recoverable reason schedules exactly one reconnect,
\* and when that timer fires after an open event (the status is Connected)
\* the call is a no-op.
C4_ReconnectAfterOpenIsNoop ==
    [][ /\ (lastOp'.op = "close" /\ lastOp'.arg # "loggedOut")
            => Len(timers') = Len(timers) + 1
        /\ (lastOp'.op \in {"start_begin", "start_noop"} /\ lastOp'.arg = "close"
            /\ isConnected)
            => (lastOp'.op = "start_noop" /\ isConnected' /\ starting' = starting) ]_vars

\* C5: at most one reconnect timer is pending, and a timer that fires while
\* a later one is pending is a no-op.
C5_OnlyLatestTimerHonored ==
    [][ /\ Len(timers') <= 1
        /\ lastOp'.op = "start_begin"
            => timers' = SubSeq(timers, 1, Len(timers) - 1) ]_vars

\* C6: whenever the server is not connected, a send request that carries a
\* target and a payload is answered NotConnected, nothing is forwarded to
\* the client, and the message buffer is unchanged.
C6_SendWhenNotConnected ==
    [][ (lastOp'.op \in {"send", "sendStart"} /\ lastOp'.arg # "missing"
         /\ ~isConnected)
            => (lastOp'.arg = "NotConnected" /\ lastOp'.cl = 0
                /\ messages' = messages) ]_vars

-----------------------------------------------------------------------------
(* Claims about the message buffer and address normalization *)

\* The records of a buffer are newest first: sequence numbers decrease
NewestFirst(buf) == \A i, j \in 1..Len(buf) : i < j => buf[i] > buf[j]

\* What Recent(n) may return: at most min(n, capacity) records, the newest
\* ones of the buffer, newest first
RecentOk(n) ==
    /\ Len(recent) <= Min(n, MAX_MESSAGES)
    /\ Len(recent) <= Len(messages)
    /\ recent = SubSeq(messages, 1, Len(recent))
    /\ NewestFirst(recent)

\* C7 (as amended): after any sequence of appends the buffer holds at most
\* MAX_MESSAGES records, and for every positive N a request for the N most
\* recent returns at most min(N, MAX_MESSAGES) records, newest first.
C7_BufferBounded ==
    /\ Len(messages) <= MAX_MESSAGES
    /\ (lastOp.op = "messages" /\ lastOp.arg = "given" /\ lastOp.cl >= 1)
           => RecentOk(lastOp.cl)

\* C7 witness: more than MAX_MESSAGES records were appended, the buffer is
\* full, and a request for the 2 most recent returned the 2 newest.
C7_FullBufferRead ==
    /\ Len(messages) = MAX_MESSAGES
    /\ Head(messages) > MAX_MESSAGES
    /\ lastOp.op = "messages" /\ lastOp.arg = "given" /\ lastOp.cl = 2
    /\ recent = << Head(messages), Head(messages) - 1 >>

\* C7 as written: the bound on Recent(N) holds for every count N, zero
\* included.
C7_RecentBoundedForEveryCount ==
    /\ Len(messages) <= MAX_MESSAGES
    /\ (lastOp.op = "messages" /\ lastOp.arg = "given" /\ lastOp.cl >= 0)
           => RecentOk(lastOp.cl)

\* C8: an input containing "@" is returned unchanged; otherwise every
\* non-digit is removed and the user domain appended; an empty input, or one
\* with no digit left, is rejected; the result is never the bare user domain.
C8_AddressNormalization ==
    lastOp.op = "formatPhone" =>
        /\ (phoneIn # Null /\ IncludesAt(phoneIn)) => jidOut = phoneIn
        /\ (phoneIn # Null /\ ~IncludesAt(phoneIn) /\ OnlyDigits(phoneIn) # << >>)
               => jidOut = OnlyDigits(phoneIn) \o UserDomain
        /\ (phoneIn = Null \/ phoneIn = << >>
               \/ (~IncludesAt(phoneIn) /\ OnlyDigits(phoneIn) = << >>))
               => jidOut = Null
        /\ jidOut # UserDomain

-----------------------------------------------------------------------------
(* Claims about inbound batches and the media store *)

\* The messages of a batch that are to append a record: those with a body
\* that come neither from the status channel nor from a group
Kept(batch) ==
    SelectSeq(batch, LAMBDA m : m.hasMessage /\ m.jid # StatusJid
                                 /\ m.jid \notin GroupJids)

\* C9: for every inbound batch, in every server, a message from the status
\* channel or addressed to a group appends no record, and every other message
\* with a body appends exactly one; the new records are those of the
\* remaining messages, the last of the batch first, on top of the old buffer.
C9_InboundFiltering ==
    [][ (lastOp'.op \in {"upsert", "upsertP1", "upsertV4"} /\ lastOp'.arg = "notify")
            => LET kept == Kept(lastBatch')
               IN  /\ Len(messages') = Len(messages) + Len(kept)
                   /\ SubSeq(messages', Len(kept) + 1, Len(messages')) = messages
                   /\ \A i \in 1..Len(kept) :
                          /\ messages'[Len(kept) + 1 - i].id = kept[i].id
                          /\ messages'[Len(kept) + 1 - i].from = kept[i].jid ]_vars

\* C10: downloadAndSaveMedia of a media message whose payload is empty or
\* absent returns null, writes no file and registers no media record: the
\* media store is unchanged.
C10_EmptyPayloadLeavesStore ==
    [][ (lastOp'.op = "downloadAndSaveMedia" /\ lastOp'.arg \in {"empty", "absent"})
            => (lastOp'.cl = 0 /\ mediaFiles' = mediaFiles
                /\ mediaCache' = mediaCache /\ mediaSeq' = mediaSeq) ]_vars

\* C10 witness: a media message with an empty payload was handled, with
\* null as the result, while the store held one file and one record.
C10_EmptyPayloadSeen ==
    /\ lastOp = Op("downloadAndSaveMedia", "empty", 0)
    /\ lastBatch[1].media = "image"
    /\ Cardinality(mediaFiles) = 1
    /\ Cardinality(mediaCache) = 1

-----------------------------------------------------------------------------
(* Claims about the media sweep *)

-----------------------------------------------------------------------------
(* Claims about logout, forced reconnect and the session status *)

\* C12: when POST /logout has succeeded the credentials are cleared, the
\* server is not connected, no challenge is stored, the client it had is
\* no longer live, and a start has been scheduled by the handler, so that
\* a new challenge follows with no further request.
C12_LogoutRestarts ==
    [][ (lastOp'.op = "logout" /\ lastOp'.arg = "ok")
            => /\ authDir' \in {"absent", "empty"}
               /\ ~isConnected' /\ qrCode' = 0
               /\ (sock # 0 => clients'[sock] \notin Live)
               /\ Len(timers') = Len(timers) + 1 ]_vars

\* C13: POST /reconnect leaves the credential directory as it is, ends the
\* current client, leaves the server not connected and schedules one start;
\* the client it ended causes no second start when its close event arrives.
C13_ForceReconnectStartsOnce ==
    [][ /\ lastOp'.op = "reconnect"
            => /\ authDir' = authDir
               /\ (sock # 0 => clients'[sock] \notin Live)
               /\ ~isConnected' /\ qrCode' = 0
               /\ Len(timers') = Len(timers) + 1
        /\ (lastOp'.op = "close" /\ clients[lastOp'.cl] = "endPending")
            => timers' = timers ]_vars

\* C14: in V4 a challenge is stored only while the status is waiting_qr:
\* when the status is connected or disconnected none is stored; an open
\* event and a close event leave none stored; and a challenge that is
\* stored is one whose rendering was awaited, in place of the previous one.
C14_ChallengeOnlyWhileAwaitingPairing ==
    [][ /\ qrCode' # 0 => connectionStatus' = "waiting_qr"
        /\ lastOp'.op \in {"open", "close"} => qrCode' = 0
        /\ (lastOp'.op = "qr_rendered" /\ lastOp'.arg = "ok")
               => \E k \in 1..Len(rendering) : qrCode' = rendering[k] ]_vars

\* C14 in the definitive server: a challenge is stored only while the
\* server is not connected, an open event and a close event leave none
\* stored, and a qr event stores the challenge it carries.
C14_ChallengeOnlyWhileNotConnected ==
    [][ /\ qrCode' # 0 => ~isConnected'
        /\ lastOp'.op \in {"open", "close"} => qrCode' = 0
        /\ lastOp'.op = "qr" => qrCode' \in QrValues ]_vars

\* C14 witness: V4 handled an open event while the rendering of a
\* challenge was still awaited, and no challenge is stored.
C14_OpenWhileRendering ==
    /\ lastOp.op = "open"
    /\ connectionStatus = "connected"
    /\ rendering # << >>
    /\ qrCode = 0

\* C15: a POST /send that succeeds while connected forwards the text to
\* the open client, and once the client has reported the sent message
\* exactly one record, addressed to the target, has been added to the
\* buffer, whether the target is a user or a group.
C15_SendAppendsOutboundRecord ==
    [][ /\ (lastOp'.op = "send" /\ lastOp'.arg = "sent")
            => (lastOp'.cl = sock /\ clients[sock] = "open")
        /\ lastOp'.op = "ownUpsert"
            => /\ Len(messages') = Len(messages) + 1
               /\ Tail(messages') = messages
               /\ Head(messages').from = Joined(jidOut) ]_vars

-----------------------------------------------------------------------------
(* Claims about GET /messages *)

\* C16: GET /messages returns the first min(limit, size) records of the
\* buffer when the limit is positive, and the first min(50, size) records
\* when the limit is absent, zero or negative.
C16_RecentLimit ==
    lastOp.op = "messages" =>
        LET limit == IF lastOp.arg = "given" /\ lastOp.cl >= 1 THEN lastOp.cl ELSE 50
        IN  recent = SubSeq(messages, 1, Min(limit, Len(messages)))

-----------------------------------------------------------------------------
(* Claims about the connection.update handler and connect failures *)

\* C17: an event delivered by a client that is not the current one, or
\* that /logout or /reconnect has torn down, changes neither the flags, the
\* challenge nor the last error, and schedules no reconnect.
C17_StaleClientEventsIgnored ==
    [][ (lastOp'.op \in {"qr", "open", "close"}
         /\ (lastOp'.cl # sock \/ clients[lastOp'.cl] \notin Live))
            => UNCHANGED << isConnected, isConnecting, qrCode, connectionError,
                            timers >> ]_vars

\* C18: after an open event is handled the server is connected, no
\* challenge is stored, the last error is cleared, the reentrancy flag is
\* released, and the time of the event is recorded as last connected.
C18_OpenEventEffects ==
    [][ lastOp'.op = "open"
            => /\ isConnected' /\ ~isConnecting'
               /\ qrCode' = 0
               /\ connectionError' = "null"
               /\ lastConnectedAt' = now' ]_vars

\* The timer scheduled last
NewTimer == timers'[Len(timers')]

\* C19: every close event leaves the server not connected with no
\* challenge stored; a restartRequired close schedules one reconnect after
\* 1 s, every other close but loggedOut schedules one after 3 to 5 s, and a
\* connect failure schedules its retry after 10 s, longer than both.
C19_CloseDelays ==
    [][ /\ lastOp'.op = "close" => (~isConnected' /\ qrCode' = 0)
        /\ (lastOp'.op = "close" /\ lastOp'.arg = "restartRequired")
            => (Len(timers') = Len(timers) + 1 /\ NewTimer.delay = 1000)
        /\ (lastOp'.op = "close" /\ lastOp'.arg \notin {"restartRequired", "loggedOut"})
            => (Len(timers') = Len(timers) + 1 /\ NewTimer.delay \in 3000..5000)
        /\ lastOp'.op = "start_fail" => NewTimer.delay > 5000 ]_vars

\* C19 witness: an open client has lost its connection and the reconnect
\* is pending with the medium delay.
C19_ConnectionLostSeen ==
    /\ lastOp.op = "close" /\ lastOp.arg = "connectionLost"
    /\ lastOp.cl = sock
    /\ ~isConnected
    /\ timers = << [src |-> "close", delay |-> 3000] >>

\* C20: when connectWhatsApp fails before its client exists, the
\* reentrancy flag is released, the failure is the last error, the server
\* is not connected, the credential directory is untouched, and exactly one
\* retry is scheduled, after 10 s.
C20_ConnectFailure ==
    [][ lastOp'.op = "start_fail"
            => /\ ~isConnecting'
               /\ connectionError' = "connectFailed"
               /\ ~isConnected' /\ connectionStatus' # "connected"
               /\ authDir' = authDir
               /\ Len(timers') = Len(timers) + 1
               /\ NewTimer.delay = 10000 ]_vars

-----------------------------------------------------------------------------
(* Recovery of the definitive server: the handlers that write isConnecting, *)
(* the timers and the clients, under the fairness of the event loop.        *)

NextRecovery ==
    \/ TimerFire
    \/ StartConstruct
    \/ StartFail
    \/ EvOpen
    \/ EvClose
    \/ Logout
    \/ Reconnect

\* A due timer fires; an attempt that is retried for ever succeeds at last
SpecRecovery ==
    Init /\ [][NextRecovery]_vars /\ WF_vars(TimerFire) /\ SF_vars(StartConstruct)

-----------------------------------------------------------------------------
(* POST /send of the definitive server beside the connection handlers: the  *)
(* request carries a text, its target is recorded in phoneIn.               *)

\* POST /send that gives the connection up when sock.sendMessage throws
SendTextToDropsSession ==
    \E to \in Targets, ok \in BOOLEAN :
        /\ handled < MaxInbox
        /\ handled' = handled + 1
        /\ UNCHANGED fetching
        /\ phoneIn' = to
        /\ IF SendCheck(to, TRUE) # "forward"
           THEN /\ ok
                /\ jidOut' = IF SendCheck(to, TRUE) = "InvalidTarget"
                             THEN formatPhone(to) ELSE jidOut
                /\ lastOp' = Op("send", SendCheck(to, TRUE), 0)
                /\ UNCHANGED isConnected
           ELSE /\ ok => clients[sock] = "open"
                /\ jidOut' = formatPhone(to)
                /\ isConnected' = ok
                /\ lastOp' = Op("send", IF ok THEN "sent" ELSE "SendFailed", sock)
        /\ UNCHANGED << sock, qrCode, isConnecting, connectionError,
                        authDir, clients, timers, starting, pairingRequired,
                        connectionStatus, rendering, lastConnectedAt, messages,
                        storeVars, lastBatch, recent >>

\* POST /send with a text; lastOp.cl is the client sock.sendMessage was
\* called on, 0 if none
SendTextTo ==
    \E to \in Targets, ok \in BOOLEAN :
        /\ handled < MaxInbox
        /\ handled' = handled + 1
        /\ UNCHANGED fetching
        /\ phoneIn' = to
        /\ IF SendCheck(to, TRUE) # "forward"
           THEN /\ ok
                /\ jidOut' = IF SendCheck(to, TRUE) = "InvalidTarget"
                             THEN formatPhone(to) ELSE jidOut
                /\ lastOp' = Op("send", SendCheck(to, TRUE), 0)
           ELSE /\ ok => clients[sock] = "open"
                /\ jidOut' = formatPhone(to)
                /\ lastOp' = Op("send", IF ok THEN "sent" ELSE "SendFailed", sock)
        /\ UNCHANGED << sock, qrCode, isConnected, isConnecting, connectionError,
                        authDir, clients, timers, starting, pairingRequired,
                        connectionStatus, rendering, lastConnectedAt, messages,
                        storeVars, lastBatch, recent >>

NextSend ==
    \/ TimerFire
    \/ StartConstruct
    \/ EvOpen
    \/ EvClose
    \/ SendTextTo

SpecSend == Init /\ [][NextSend]_vars

\* C22: while the server is not connected, POST /send answers NotConnected
\* whatever the target is, the empty target included.
C22_ConnectivityCheckedFirst ==
    [][ (lastOp'.op = "send" /\ (~isConnected \/ sock = 0))
            => lastOp'.arg = "NotConnected" ]_vars

\* C30: a POST /send whose sock.sendMessage throws answers SendFailed and
\* leaves the connection state, the active client, the clients, the timers,
\* the starts in flight and the message buffer as they were.
C30_FailedSendChangesNothing ==
    [][ (lastOp'.op = "send" /\ lastOp'.arg = "SendFailed")
            => UNCHANGED << isConnected, isConnecting, qrCode, connectionError,
                            sock, clients, timers, starting, messages >> ]_vars

\* C30 witness: sock.sendMessage threw on the open, active client of a
\* connected server
C30_SendFailedWhileConnected ==
    /\ lastOp = Op("send", "SendFailed", sock)
    /\ isConnected
    /\ clients[sock] = "open"

-----------------------------------------------------------------------------
(* POST /send-image of the V4 server beside its connection handlers.  With *)
(* an imageUrl the handler suspends at fetch(imageUrl) between its         *)
(* connectivity check and sock.sendMessage; fetching holds, per suspended  *)
(* request, the client that was active when the check was made.            *)

MaxFetching == 1   \* /send-image requests suspended at one time

ImageSources == {"imageBase64", "imageUrl", "none"}

\* POST /send-image up to its first await
SendImageV4 ==
    \E src \in ImageSources, ok \in BOOLEAN :
        /\ handled < MaxInbox
        /\ handled' = handled + 1
        /\ IF sock = 0 \/ connectionStatus # "connected"
           THEN /\ ok
                /\ lastOp' = Op("sendImage", "NotConnected", 0)
                /\ UNCHANGED fetching
           ELSE CASE src = "none" ->
                       /\ ok
                       /\ lastOp' = Op("sendImage", "missing", 0)
                       /\ UNCHANGED fetching
                  [] src = "imageBase64" ->
                       /\ ok => clients[sock] = "open"
                       /\ lastOp' = Op("sendImage", IF ok THEN "sent" ELSE "SendFailed",
                                       sock)
                       /\ UNCHANGED fetching
                  [] src = "imageUrl" ->
                       /\ ok
                       /\ Len(fetching) < MaxFetching
                       /\ fetching' = Append(fetching, sock)
                       /\ lastOp' = Op("sendImage", "fetch", sock)
        /\ UNCHANGED << sock, qrCode, connectionStatus, rendering, lastConnectedAt,
                        messages, authDir, clients, timers, starting, pairingRequired,
                        isConnected, isConnecting, connectionError, storeVars,
                        phoneVars, lastBatch, recent >>

\* ... and after fetch(imageUrl): the fetch threw, or sock.sendMessage is
\* called on whatever sock is now
SendImageFetchedV4 ==
    \E k \in 1..Len(fetching), fetched \in BOOLEAN, ok \in BOOLEAN :
        /\ fetching' = RemoveAt(fetching, k)
        /\ IF ~fetched
           THEN /\ ok
                /\ lastOp' = Op("sendImageFetched", "fetchFailed", 0)
           ELSE /\ ok => clients[sock] = "open"
                /\ lastOp' = Op("sendImageFetched", IF ok THEN "sent" ELSE "SendFailed",
                                sock)
        /\ UNCHANGED << sock, qrCode, connectionStatus, rendering, lastConnectedAt,
                        messages, authDir, clients, timers, starting, pairingRequired,
                        isConnected, isConnecting, connectionError, storeVars,
                        phoneVars, lastBatch, recent, handled >>

NextSendV4 ==
    \/ TimerFireV4
    \/ StartConstructV4
    \/ EvOpenV4
    \/ EvCloseV4
    \/ SendImageV4
    \/ SendImageFetchedV4

SpecSendV4 == InitV4 /\ [][NextSendV4]_vars

\* C23: a send that was suspended between its connectivity check and its
\* forward calls sock.sendMessage on the client that was active at the
\* check, and only while the server is still connected: never on a client
\* swapped in meanwhile, never after a disconnect.
C23_ForwardToCheckedClient ==
    [][ (lastOp'.op = "sendImageFetched" /\ lastOp'.cl # 0)
            => \E k \in 1..Len(fetching) :
                   /\ fetching' = RemoveAt(fetching, k)
                   /\ lastOp'.cl = fetching[k]
                   /\ connectionStatus = "connected"
                   /\ clients[fetching[k]] = "open" ]_vars

\* The same with a disconnect let through: the forward goes to the client
\* that was active at the check
C23_ForwardToActiveClientOfCheck ==
    [][ (lastOp'.op = "sendImageFetched" /\ lastOp'.cl # 0)
            => \E k \in 1..Len(fetching) :
                   /\ fetching' = RemoveAt(fetching, k)
                   /\ lastOp'.cl = fetching[k] ]_vars

\* C24: POST /logout and POST /reconnect leave a connectWhatsApp that is in
\* flight (flag set, client not yet constructed) alone behind its guard: no
\* second connectWhatsApp gets past the guard meanwhile, so at most one is
\* ever between the guard and makeWASocket.
C24_OneStartInFlight == Len(starting) <= 1

-----------------------------------------------------------------------------
(* Claims about failures inside a batch, the text of a record and eviction *)

\* The handler tried to download the attachment of m and got nothing
DownloadFailed(m) ==
    /\ m.hasMessage /\ m.jid # StatusJid
    /\ m.conversation = "" /\ m.extText = ""
    /\ m.media # "none" /\ m.dl # "ok"

\* The messages of a V4 batch that are to append a record
KeptV4(batch) ==
    SelectSeq(batch, LAMBDA m : m.hasMessage /\ m.jid # StatusJid /\ ~DownloadFailed(m))

\* C25: in a batch handled by V4, a message whose attachment download
\* failed appends no record, and every other message with a body, the ones
\* after it included, appends its record.
C25_FailedMessageSkipped ==
    [][ (lastOp'.op = "upsertV4" /\ lastOp'.arg = "notify")
            => LET kept == KeptV4(lastBatch')
               IN  /\ Len(messages') = Len(messages) + Len(kept)
                   /\ \A i \in 1..Len(kept) :
                          messages'[Len(kept) + 1 - i].id = kept[i].id ]_vars

\* C26: a cleanupOldMedia in which one statSync or unlinkSync throws still
\* removes every other expired file: at most the one file of the failed
\* call is left expired in MEDIA_FOLDER.
C26_SweepSkipsFailedFile ==
    [][ lastOp'.op = "cleanupOldMedia"
            => Cardinality({ f \in mediaFiles' : Expired(f.mtime, now) }) <= 1 ]_vars

\* The first non-empty of the plain body, the extended-text body and the
\* caption of m
BestText(m) ==
    IF m.conversation # "" THEN m.conversation
    ELSE IF m.extText # "" THEN m.extText
    ELSE m.caption

\* The records of the handlers named in ops carry the best text of their
\* messages (msg.key.id is the position of the message in its batch)
TextPriority(ops) ==
    (lastOp'.op \in ops /\ lastOp'.arg = "notify")
        => \A j \in 1..(Len(messages') - Len(messages)) :
               messages'[j].text = BestText(lastBatch'[messages'[j].id])

\* C27: in every server the text of an inbound record is the first
\* non-empty of plain body, extended-text body and caption (of an image, a
\* video or a document), and is empty only when all of them are.
C27_TextPriority == [][TextPriority({"upsert", "upsertP1", "upsertV4"})]_vars

\* The same for the definitive server alone
C27_TextPriorityDefinitive == [][TextPriority({"upsert"})]_vars

\* ... and for part_001 alone
C27_TextPriorityP1 == [][TextPriority({"upsertP1"})]_vars

\* C28: an append to a full buffer drops exactly the oldest record: the
\* buffer afterwards is the new record followed by the old records but the
\* last, in their order and unaltered.  (A record is its sequence number.)
C28_AppendEvictsOldest ==
    [][ (lastOp'.op \in {"addMessage", "pushMessage"} /\ Len(messages) = MAX_MESSAGES)
            => messages' = << lastOp'.cl >> \o SubSeq(messages, 1, MAX_MESSAGES - 1) ]_vars

\* C28 witness: addMessage on a full buffer has just dropped record 1
C28_OldestEvicted ==
    /\ lastOp.op = "addMessage"
    /\ Len(messages) = MAX_MESSAGES
    /\ Head(messages) = MAX_MESSAGES + 1
    /\ messages[MAX_MESSAGES] = 2

\* C29: after cleanupOldMedia the media records are those of the files in
\* MEDIA_FOLDER: the record of a file the sweep has deleted is no longer
\* registered.
C29_IndexFollowsDirectory ==
    [][ lastOp'.op = "cleanupOldMedia"
            => \A r \in mediaCache' : \E f \in mediaFiles' : f.id = r.id ]_vars

-----------------------------------------------------------------------------
(* Claims about the credential directory, the status flags, logout and    *)
(* the buffer                                                             *)

\* C31: when connectWhatsApp has constructed its client the credential
\* directory exists and the status is Connecting (or, later in the same
\* attempt, awaiting the pairing): checked on V4, whose status is the
\* single connectionStatus.
C31_StartEnsuresAuthDir ==
    [][ lastOp'.op = "start_construct"
            => /\ authDir' # "absent"
               /\ connectionStatus' \in {"connecting", "waiting_qr"} ]_vars

\* The same for the definitive server, at the guard: the directory is
\* there and isConnecting is set before the first await
C31_StartBeginEnsuresAuthDir ==
    [][ lastOp'.op = "start_begin" => (authDir' # "absent" /\ isConnecting') ]_vars

\* ... and when its client is constructed, after the awaits
C31_AuthDirAtConstruct ==
    [][ lastOp'.op = "start_construct" => authDir' # "absent" ]_vars

-----------------------------------------------------------------------------
(* Shutdown of the definitive server: the SIGTERM and SIGINT handlers      *)
(* beside the connection handlers.  process.exit(0) ends the run: nothing  *)
(* is handled after it.                                                    *)

Signals == {"SIGTERM", "SIGINT"}

\* process.exit(0) has been called
Exited == lastOp.op \in Signals

\* A signal handler that exits without sock.end()
ShutdownAbrupt ==
    \E sig \in Signals :
        /\ ~Exited
        /\ lastOp' = Op(sig, "exit", sock)
        /\ UNCHANGED << sock, qrCode, isConnected, isConnecting, connectionError,
                        authDir, clients, timers, starting, pairingRequired,
                        restVars >>

\* process.on('SIGTERM' / 'SIGINT'): sock.end() if there is a sock, then
\* process.exit(0)
Shutdown ==
    \E sig \in Signals :
        /\ ~Exited
        /\ clients' = Ended(clients, sock)
        /\ lastOp' = Op(sig, "exit", sock)
        /\ UNCHANGED << sock, qrCode, isConnected, isConnecting, connectionError,
                        authDir, timers, starting, pairingRequired, restVars >>

NextShutdown ==
    \/ ~Exited /\ TimerFire
    \/ ~Exited /\ StartConstruct
    \/ ~Exited /\ EvOpen
    \/ ~Exited /\ EvClose
    \/ ~Exited /\ Reconnect
    \/ Shutdown

SpecShutdown == Init /\ [][NextShutdown]_vars

\* C32: a termination signal ends the process in the handler's own step,
\* and in that step the active client, if it is live, has been told to
\* terminate: its close is still to come when the process has exited.
C32_ShutdownEndsActiveClient ==
    [][ lastOp'.op \in Signals
            => /\ Exited'
               /\ (sock # 0 /\ clients[sock] \in Live) => clients'[sock] = "endPending"
               /\ \A c \in 1..Len(clients) : c # sock => clients'[c] = clients[c] ]_vars

\* C32 witness: the process has exited on SIGTERM with its open client
\* told to end and the close event not delivered
C32_ExitedWithClientEnding ==
    /\ lastOp = Op("SIGTERM", "exit", sock)
    /\ sock # 0
    /\ clients[sock] = "endPending"
    /\ isConnected

\* C33: in the definitive server isConnected and isConnecting are never
\* both true.
C33_FlagsExclusive == ~(isConnected /\ isConnecting)

\* C34: once V4's status is connected, only a close event or POST /logout
\* changes it, and no challenge is stored while it lasts: a qr event, and
\* the rendering it awaits, leave the status connected and qrCode empty.
C34_ConnectedUntilCloseOrLogout ==
    [][ connectionStatus = "connected"
            => \/ lastOp'.op \in {"close", "logout"}
               \/ (connectionStatus' = "connected" /\ qrCode' = 0) ]_vars

\* The same in the definitive server, where Connected is isConnected and
\* POST /reconnect is a third way out
C34_ConnectedUntilCloseLogoutOrReconnect ==
    [][ isConnected
            => \/ lastOp'.op \in {"close", "logout", "reconnect"}
               \/ (isConnected' /\ qrCode' = 0) ]_vars

\* POST /logout of the definitive server beside its connection handlers
NextLogout ==
    \/ TimerFire
    \/ StartConstruct
    \/ EvOpen
    \/ EvClose
    \/ EvCreds
    \/ Logout

SpecLogout == Init /\ [][NextLogout]_vars

\* C35: a POST /logout whose sock.logout() throws answers with the error
\* and leaves the credential directory, isConnected, isConnecting, the
\* challenge, sock and the clients as they were.
C35_FailedLogoutChangesNothing ==
    [][ (lastOp'.op = "logout" /\ lastOp'.arg = "error")
            => UNCHANGED << authDir, isConnected, isConnecting, qrCode, sock, clients >> ]_vars

\* C35 witness: sock.logout() threw on a connected server holding
\* credentials
C35_LogoutFailedWhileConnected ==
    /\ lastOp = Op("logout", "error", sock)
    /\ isConnected
    /\ clients[sock] = "open"
    /\ authDir = "creds"

\* C36: a batch whose type is not 'notify' leaves the message buffer as it
\* was, and in a 'notify' batch no record is appended for a message without
\* body: every new record is that of a message with one (msg.key.id is the
\* position of the message in its batch).
C36_OnlyNotifiedBodiesAppend ==
    [][ lastOp'.op \in {"upsert", "upsertP1", "upsertV4"}
            => /\ lastOp'.arg # "notify" => messages' = messages
               /\ Len(messages') >= Len(messages)
               /\ Len(messages') - Len(messages)
                      <= Cardinality({ i \in 1..Len(lastBatch') : lastBatch'[i].hasMessage })
               /\ \A j \in 1..(Len(messages') - Len(messages)) :
                      lastBatch'[messages'[j].id].hasMessage ]_vars

\* C36 witness: the definitive server was handed a 'notify' batch of a
\* message without body and one with, and the buffer holds the record of
\* the second alone
C36_BodylessMessageSkipped ==
    /\ lastOp = Op("upsert", "notify", 0)
    /\ Len(lastBatch) = 2
    /\ ~lastBatch[1].hasMessage
    /\ lastBatch[2].hasMessage
    /\ Len(messages) = 1
    /\ messages[1].id = 2

-----------------------------------------------------------------------------
(* The message buffer of the V4 server beside its connection handlers and  *)
(* POST /logout: the inbound batches are single text messages of a user.   *)

TextMsgs ==
    { m \in InboundMsgs : m.hasMessage /\ m.conversation # "" /\ m.jid \notin GroupJids
                          /\ m.jid # StatusJid }

\* messages.upsert of V4 with a 'notify' batch of one text message
UpsertTextV4 ==
    \E m \in TextMsgs :
        /\ handled < MaxInbox
        /\ handled' = handled + 1
        /\ lastBatch' = << Keyed(m, handled + 1) >>
        /\ messages' = UpsertLoopV4(<< Keyed(m, handled + 1) >>,
                                    [buf |-> messages, st |-> Store]).buf
        /\ lastOp' = Op("upsertV4", "notify", 0)
        /\ UNCHANGED << sock, qrCode, connectionStatus, rendering, lastConnectedAt,
                        authDir, clients, timers, starting, pairingRequired,
                        isConnected, isConnecting, connectionError, storeVars,
                        phoneVars, recent, fetching >>

NextBufferV4 ==
    \/ TimerFireV4
    \/ StartConstructV4
    \/ EvOpenV4
    \/ EvCloseV4
    \/ LogoutV4
    \/ UpsertTextV4

SpecBufferV4 == InitV4 /\ [][NextBufferV4]_vars

\* C37: in V4 a POST /logout that succeeds leaves the message buffer empty;
\* a close event, a reconnect (the timer's connectWhatsApp and the client it
\* constructs), an open event and a failed logout leave the buffer as it
\* was.
C37_OnlyLogoutEmptiesBuffer ==
    [][ /\ (lastOp'.op = "logout" /\ lastOp'.arg = "ok") => messages' = << >>
        /\ (\/ lastOp'.op \in {"close", "open", "start_begin", "start_construct"}
            \/ (lastOp'.op = "logout" /\ lastOp'.arg = "error"))
               => messages' = messages ]_vars

\* C37 witness: records had been appended and a successful logout has left
\* none
C37_LogoutEmptiedBuffer ==
    /\ lastOp.op = "logout" /\ lastOp.arg = "ok"
    /\ handled = MaxInbox
    /\ messages = << >>

\* A close event was handled with records in the buffer, which are there
\* still
C37_CloseKeptBuffer ==
    /\ lastOp.op = "close"
    /\ Len(messages) = MaxInbox

-----------------------------------------------------------------------------
(* formatPhone applied to its own result *)

\* formatPhone(formatPhone(phoneIn)), once formatPhone(phoneIn) is in jidOut
FormatPhoneAgain ==
    /\ lastOp = Op("formatPhone", "definitive", 0)
    /\ jidOut # Null
    /\ jidOut' = formatPhone(jidOut)
    /\ lastOp' = Op("formatPhoneAgain", "definitive", 0)
    /\ UNCHANGED << sock, qrCode, isConnected, isConnecting, connectionError,
                    authDir, clients, timers, starting, pairingRequired,
                    connectionStatus, rendering, lastConnectedAt, messages, storeVars,
                    phoneIn, lastBatch, recent, handled, fetching >>

NextPhoneTwice ==
    \/ FormatPhone
    \/ FormatPhoneAgain

SpecPhoneTwice == InitPhone /\ [][NextPhoneTwice]_vars

\* C38: for every target that formatPhone turns into an address,
\* formatPhone of that address is the address itself.
C38_FormatPhoneIdempotent ==
    [][ lastOp'.op = "formatPhoneAgain" => jidOut' = jidOut ]_vars

\* C38 witness: a number written with a sign was normalized, and the
\* address normalized again
C38_NormalizedTwice ==
    /\ lastOp.op = "formatPhoneAgain"
    /\ phoneIn = << "+", "5", "1" >>
    /\ jidOut = << "5", "1", "@", "s.whatsapp.net" >>

====
